---- MODULE Spec2Model ----
(***************************************************************************)
(* Model of the SerLCD driver (src/src/lib.rs): a display controller that  *)
(* owns an SPI bus, a chip-select line and a delay source, and turns each  *)
(* public operation into a sequence of capability calls.                   *)
(*                                                                         *)
(* Every public operation is one action.  Its body is translated into the  *)
(* list of capability calls the code makes in order (a "program"), and     *)
(* Run executes that list the way the `?` operator does: the first call    *)
(* that reports a failure ends the operation with the mapped error.        *)
(***************************************************************************)
EXTENDS Integers, Sequences, FiniteSets, TLC

(* ------------------------------------------------------------------ *)
(* Bounds of the model                                                 *)
(* ------------------------------------------------------------------ *)
MaxCount == 3
MaxLen == 2

(* ------------------------------------------------------------------ *)
(* Constants of lib.rs                                                 *)
(* ------------------------------------------------------------------ *)
MAX_ROWS == 4
MAX_COLUMNS == 20
SPECIAL_COMMAND == 254
SETTING_COMMAND == 124
CLEAR_COMMAND == 45
LCD_RETURNHOME == 2
LCD_ENTRYMODESET == 4
LCD_DISPLAYCONTROL == 8
LCD_CURSORSHIFT == 16
LCD_SETDDRAMADDR == 128
LCD_ENTRYLEFT == 2
LCD_ENTRYSHIFTDECREMENT == 0
LCD_DISPLAYON == 4
LCD_CURSORON == 2
LCD_CURSOROFF == 0
LCD_BLINKOFF == 0

(* ------------------------------------------------------------------ *)
(* u8 arithmetic                                                       *)
(* ------------------------------------------------------------------ *)
U8 == 0..(2^8 - 1)

RECURSIVE BitAndN(_, _, _)
BitAndN(a, b, n) ==
    IF n = 0 THEN 0
    ELSE ((a % 2) * (b % 2)) + 2 * BitAndN(a \div 2, b \div 2, n - 1)

BitAnd(a, b) == BitAndN(a, b, 8)
BitNot(a) == (2^8 - 1) - a
BitOr(a, b) == BitNot(BitAnd(BitNot(a), BitNot(b)))

(* ------------------------------------------------------------------ *)
(* Capability calls                                                    *)
(* ------------------------------------------------------------------ *)
\* Variant: the line failure is reported as a bus failure
SetLow_AsSpi == [c |-> "set_low", v |-> 0, e |-> "Spi"]

\* cs.set_low().map_err(Error::Pin)
SetLow == [c |-> "set_low", v |-> 0, e |-> "Pin"]
\* cs.set_high().map_err(Error::Pin)
SetHigh == [c |-> "set_high", v |-> 0, e |-> "Pin"]
\* spi.write(&[data]).map_err(Error::Spi)
SpiWrite(data) == [c |-> "write", v |-> data, e |-> "Spi"]
\* delay_source.delay_ms(ms): infallible
DelayMs(ms) == [c |-> "delay_ms", v |-> ms, e |-> "None"]

Fallible(step) == step.c # "delay_ms"

\* Variant: the select line is not lowered
begin_transmission_NoSetLow == <<DelayMs(10)>>

begin_transmission == <<SetLow, DelayMs(10)>>

\* Variant: the select line is not raised
end_transmission_NoSetHigh == <<DelayMs(10)>>

end_transmission == <<SetHigh, DelayMs(10)>>

transmit(data) == <<SpiWrite(data)>>

(* ------------------------------------------------------------------ *)
(* The `?` discipline: calls are made in order; the call at position   *)
(* `fail` of the body reports a failure, and the operation returns at  *)
(* once with the mapped error.  fail = 0: no capability fails.         *)
(* ------------------------------------------------------------------ *)
\* Variant: the failure is noted and the remaining calls are still made
LastCall_Continue(prog, fail) == Len(prog)

\* Position of the last call the operation makes
LastCall(prog, fail) == IF fail = 0 THEN Len(prog) ELSE fail

\* Variant: a failed bus write is followed by the close of the transaction
Run_CloseOnError(prog, fail) ==
    [events |-> [i \in 1..LastCall(prog, fail) |->
                   [c |-> prog[i].c, v |-> prog[i].v, ok |-> i # fail]]
                \o (IF fail # 0 /\ prog[fail].c = "write"
                    THEN <<[c |-> "set_high", v |-> 0, ok |-> TRUE],
                           [c |-> "delay_ms", v |-> 10, ok |-> TRUE]>>
                    ELSE <<>>),
     result |-> IF fail = 0 THEN "Ok" ELSE prog[fail].e]

Run(prog, fail) ==
    [events |-> [i \in 1..LastCall(prog, fail) |->
                   [c |-> prog[i].c, v |-> prog[i].v, ok |-> i # fail]],
     result |-> IF fail = 0 THEN "Ok" ELSE prog[fail].e]

\* The outcomes of the capabilities: none fails, or one fallible call does
Failures(prog) == {0} \cup {i \in 1..Len(prog) : Fallible(prog[i])}

(* ------------------------------------------------------------------ *)
(* Bodies of the public operations                                     *)
(* ------------------------------------------------------------------ *)
\* Variant: the 50ms delay is made before the transaction is closed
setup_body_DelayInside ==
    begin_transmission
    \o transmit(SPECIAL_COMMAND) \o transmit(LCD_DISPLAYCONTROL)
    \o transmit(SPECIAL_COMMAND) \o transmit(LCD_ENTRYMODESET)
    \o transmit(SETTING_COMMAND) \o transmit(CLEAR_COMMAND)
    \o <<DelayMs(50)>>
    \o end_transmission

setup_body ==
    begin_transmission
    \o transmit(SPECIAL_COMMAND) \o transmit(LCD_DISPLAYCONTROL)
    \o transmit(SPECIAL_COMMAND) \o transmit(LCD_ENTRYMODESET)
    \o transmit(SETTING_COMMAND) \o transmit(CLEAR_COMMAND)
    \o end_transmission
    \o <<DelayMs(50)>>

command_body(command) ==
    begin_transmission
    \o transmit(SETTING_COMMAND) \o transmit(command)
    \o end_transmission
    \o <<DelayMs(10)>>

\* Variant: the delay of a setting command after a special command
special_command_body_ShortDelay(command) ==
    begin_transmission
    \o transmit(SPECIAL_COMMAND) \o transmit(command)
    \o end_transmission
    \o <<DelayMs(10)>>

special_command_body(command) ==
    begin_transmission
    \o transmit(SPECIAL_COMMAND) \o transmit(command)
    \o end_transmission
    \o <<DelayMs(50)>>

Repeat(s, n) == [i \in 1..(n * Len(s)) |-> s[((i - 1) % Len(s)) + 1]]

\* Variant: one special_command per repetition
special_command_count_body_Each(command, count) ==
    Repeat(special_command_body(command), count)

special_command_count_body(command, count) ==
    begin_transmission
    \o Repeat(transmit(SPECIAL_COMMAND) \o transmit(command), count)
    \o end_transmission
    \o <<DelayMs(50)>>

\* Variant: no delay of clear's own
clear_body_NoExtra == command_body(CLEAR_COMMAND)

clear_body == command_body(CLEAR_COMMAND) \o <<DelayMs(10)>>

home_body == special_command_body(LCD_RETURNHOME)

\* Variant: the rows in display order
row_offsets_InOrder == <<0, 20, 64, 84>>

row_offsets == <<0, 64, 20, 84>>

Max(a, b) == IF a >= b THEN a ELSE b
Min(a, b) == IF a <= b THEN a ELSE b

\* Variant: the row wraps instead of being clamped
ClampRow_Wrap(row) == row % MAX_ROWS

ClampRow(row) == Min(Max(0, row), MAX_ROWS - 1)

\* col + row_offsets[row as usize], before reduction to 8 bits
CursorSum(col, row) == col + row_offsets[ClampRow(row) + 1]

set_cursor_body(col, row) ==
    special_command_body(BitOr(LCD_SETDDRAMADDR, CursorSum(col, row) % 2^8))

RECURSIVE Flatten(_)
Flatten(ss) == IF ss = <<>> THEN <<>> ELSE Head(ss) \o Flatten(Tail(ss))

\* Variant: nothing is done for an empty buffer
write_body_SkipEmpty(buf) ==
    IF buf = <<>> THEN <<>>
    ELSE begin_transmission
         \o Flatten([i \in 1..Len(buf) |-> transmit(buf[i])])
         \o end_transmission
         \o <<DelayMs(10)>>

write_body(buf) ==
    begin_transmission
    \o Flatten([i \in 1..Len(buf) |-> transmit(buf[i])])
    \o end_transmission
    \o <<DelayMs(10)>>

\* Variant: no test for the empty text
write_str_body_Always(s) == write_body(s)

write_str_body(s) == IF s # <<>> THEN write_body(s) ELSE <<>>

(* ------------------------------------------------------------------ *)
(* What an operation's calls do to the select line and to the device   *)
(* ------------------------------------------------------------------ *)
\* The line keeps the level of the last set_low / set_high that succeeded.
LineAfter(open, evs) ==
    LET sel == {i \in 1..Len(evs) :
                  evs[i].ok /\ evs[i].c \in {"set_low", "set_high"}}
    IN IF sel = {} THEN open
       ELSE evs[CHOOSE i \in sel : \A j \in sel : j <= i].c = "set_low"

\* The bytes the bus accepted, in order.
Accepted(e) == e.c = "write" /\ e.ok

Writes(evs) ==
    LET w == SelectSeq(evs, Accepted) IN [i \in 1..Len(w) |-> w[i].v]

\* Wire protocol: a marker byte takes the next byte as its payload; any
\* other byte is text.  A marker with no payload byte after it is no frame.
IsMarker(b) == b \in {SPECIAL_COMMAND, SETTING_COMMAND}

\* The number of marker-valued bytes in a row just before position i
MarkerRun(bytes, i) ==
    CHOOSE k \in 0..(i - 1) :
       /\ \A j \in 1..k : IsMarker(bytes[i - j])
       /\ k = i - 1 \/ ~IsMarker(bytes[i - k - 1])

\* Position i holds the payload of the marker at i - 1
IsPayload(bytes, i) == MarkerRun(bytes, i) % 2 = 1

SpecialPayloads(bytes) ==
    {i \in 1..Len(bytes) : IsPayload(bytes, i) /\ bytes[i - 1] = SPECIAL_COMMAND}

\* No such frame was received yet: a value no flag byte takes
NoneSent == 2^8

\* Flag bits of the last display-control frame the device received.
LastDisplayControl(prev, bytes) ==
    LET dc == {i \in SpecialPayloads(bytes) :
                 BitAnd(bytes[i], 248) = LCD_DISPLAYCONTROL}
    IN IF dc = {} THEN prev
       ELSE BitAnd(bytes[CHOOSE i \in dc : \A j \in dc : j <= i], 7)

\* Flag bits of the last entry-mode frame the device received.
LastEntryMode(prev, bytes) ==
    LET em == {i \in SpecialPayloads(bytes) :
                 BitAnd(bytes[i], 252) = LCD_ENTRYMODESET}
    IN IF em = {} THEN prev
       ELSE BitAnd(bytes[CHOOSE i \in em : \A j \in em : j <= i], 3)

(* ------------------------------------------------------------------ *)
(* State                                                               *)
(* ------------------------------------------------------------------ *)
VARIABLES
    display_control,   \* SerLCD.display_control
    display_mode,      \* SerLCD.display_mode
    txOpen,            \* the select line is low (set_low succeeded last)
    op,                \* the last public operation called and its arguments
    events,            \* the capability calls that operation made, in order
    result,            \* what it returned: "Ok", "Spi", "Pin"; "Panic"
    sentDC,            \* device side: flags of the last display-control frame
    sentEM             \* device side: flags of the last entry-mode frame

vars == <<display_control, display_mode, txOpen, op, events, result,
          sentDC, sentEM>>

\* Arguments the model passes to the operations
Bytes == {LCD_CURSORSHIFT, CLEAR_COMMAND}
Cols == {MAX_COLUMNS - 1, 200}
Rows == {1, MAX_ROWS}
TextBytes == {72, SETTING_COMMAND}
BufBytes == {SPECIAL_COMMAND}
ShiftBytes == {LCD_CURSORSHIFT}

RECURSIVE SeqsUpTo(_, _)
SeqsUpTo(S, n) ==
    IF n = 0 THEN {<<>>}
    ELSE LET shorter == SeqsUpTo(S, n - 1) IN
         shorter \cup {Append(s, x) : s \in shorter, x \in S}

Call(name, a, b, buf) == [name |-> name, a |-> a, b |-> b, buf |-> buf]

new ==
    /\ display_control = BitOr(BitOr(LCD_DISPLAYON, LCD_CURSOROFF), LCD_BLINKOFF)
    /\ display_mode = BitOr(LCD_ENTRYLEFT, LCD_ENTRYSHIFTDECREMENT)
    /\ txOpen = FALSE
    /\ op = Call("new", 0, 0, <<>>)
    /\ events = <<>>
    /\ result = "Ok"
    /\ sentDC = NoneSent
    /\ sentEM = NoneSent

Init == new

\* A panic unwinds out of the driver: nothing is called on it afterwards.
Alive == result # "Panic"

\* One public operation whose body is prog, with the fail-th fallible call
\* failing, and the local flag byte set to dc before any I/O.
Perform(call, prog, fail, dc) ==
    /\ Alive
    /\ \E body \in {prog} : \E r \in {Run(body, fail)} :
       \E sent \in {Writes(r.events)} :
          /\ display_control' = dc
          /\ op' = call
          /\ events' = r.events
          /\ result' = r.result
          /\ txOpen' = LineAfter(txOpen, r.events)
          /\ sentDC' = LastDisplayControl(sentDC, sent)
          /\ sentEM' = LastEntryMode(sentEM, sent)
          /\ UNCHANGED display_mode

\* Variant: the local flags are cleared to match the bare command sent
setup_ResetsFlags(fail) ==
    Perform(Call("setup", 0, 0, <<>>), setup_body, fail, 0)

setup(fail) ==
    Perform(Call("setup", 0, 0, <<>>), setup_body, fail, display_control)

command(b, fail) ==
    Perform(Call("command", b, 0, <<>>), command_body(b), fail, display_control)

special_command(b, fail) ==
    Perform(Call("special_command", b, 0, <<>>), special_command_body(b), fail,
            display_control)

special_command_count(b, count, fail) ==
    Perform(Call("special_command_count", b, count, <<>>),
            special_command_count_body(b, count), fail, display_control)

clear(fail) ==
    Perform(Call("clear", 0, 0, <<>>), clear_body, fail, display_control)

home(fail) ==
    Perform(Call("home", 0, 0, <<>>), home_body, fail, display_control)

\* col + row_offsets[..] is a u8 addition: a build with overflow checks
\* (overflow_checks) panics when the sum does not fit, any other build wraps.
set_cursor(col, row, fail, overflow_checks) ==
    IF overflow_checks /\ CursorSum(col, row) >= 2^8
    THEN /\ Alive
         /\ op' = Call("set_cursor", col, row, <<>>)
         /\ events' = <<>>
         /\ result' = "Panic"
         /\ UNCHANGED <<display_control, display_mode, txOpen, sentDC, sentEM>>
    ELSE Perform(Call("set_cursor", col, row, <<>>), set_cursor_body(col, row),
                 fail, display_control)

write(buf, fail) ==
    Perform(Call("write", 0, 0, buf), write_body(buf), fail, display_control)

write_str(s, fail) ==
    Perform(Call("write_str", 0, 0, s), write_str_body(s), fail, display_control)

\* Variant: the mask is not complemented
no_display_KeepMask(fail) ==
    LET dc == BitAnd(display_control, LCD_DISPLAYON) IN
    Perform(Call("no_display", 0, 0, <<>>),
            special_command_body(BitOr(LCD_DISPLAYCONTROL, dc)), fail, dc)

no_display(fail) ==
    LET dc == BitAnd(display_control, BitNot(LCD_DISPLAYON)) IN
    Perform(Call("no_display", 0, 0, <<>>),
            special_command_body(BitOr(LCD_DISPLAYCONTROL, dc)), fail, dc)

\* Variant: the display bit is toggled instead of set
display_Toggle(fail) ==
    LET dc == IF (display_control \div LCD_DISPLAYON) % 2 = 1
              THEN display_control - LCD_DISPLAYON
              ELSE display_control + LCD_DISPLAYON
    IN Perform(Call("display", 0, 0, <<>>),
               special_command_body(BitOr(LCD_DISPLAYCONTROL, dc)), fail, dc)

\* Variant: the flag is restored when the command fails
display_Rollback(fail) ==
    LET dc == BitOr(display_control, LCD_DISPLAYON)
        body == special_command_body(BitOr(LCD_DISPLAYCONTROL, dc))
    IN Perform(Call("display", 0, 0, <<>>), body, fail,
               IF Run(body, fail).result = "Ok" THEN dc ELSE display_control)

display(fail) ==
    LET dc == BitOr(display_control, LCD_DISPLAYON) IN
    Perform(Call("display", 0, 0, <<>>),
            special_command_body(BitOr(LCD_DISPLAYCONTROL, dc)), fail, dc)

no_cursor(fail) ==
    LET dc == BitAnd(display_control, BitNot(LCD_CURSORON)) IN
    Perform(Call("no_cursor", 0, 0, <<>>),
            special_command_body(BitOr(LCD_DISPLAYCONTROL, dc)), fail, dc)

\* Variant: the blink bit (LCD_BLINKON = 0x01) is set instead of the cursor bit
cursor_Blink(fail) ==
    LET dc == BitOr(display_control, 1) IN
    Perform(Call("cursor", 0, 0, <<>>),
            special_command_body(BitOr(LCD_DISPLAYCONTROL, dc)), fail, dc)

cursor(fail) ==
    LET dc == BitOr(display_control, LCD_CURSORON) IN
    Perform(Call("cursor", 0, 0, <<>>),
            special_command_body(BitOr(LCD_DISPLAYCONTROL, dc)), fail, dc)

Next ==
    \/ \E f \in Failures(setup_body) : setup(f)
    \/ \E b \in Bytes : \E f \in Failures(command_body(b)) : command(b, f)
    \/ \E b \in Bytes : \E f \in Failures(special_command_body(b)) :
          special_command(b, f)
    \/ \E b \in ShiftBytes : \E n \in 0..MaxCount :
          \E f \in Failures(special_command_count_body(b, n)) :
             special_command_count(b, n, f)
    \/ \E f \in Failures(clear_body) : clear(f)
    \/ \E f \in Failures(home_body) : home(f)
    \/ \E col \in Cols : \E row \in Rows :
          \E f \in Failures(set_cursor_body(col, row)) :
             \E checks \in BOOLEAN : set_cursor(col, row, f, checks)
    \/ \E buf \in SeqsUpTo(BufBytes, MaxLen) :
          \E f \in Failures(write_body(buf)) : write(buf, f)
    \/ \E s \in SeqsUpTo(TextBytes, MaxLen) :
          \E f \in Failures(write_str_body(s)) : write_str(s, f)
    \/ \E f \in Failures(special_command_body(0)) : no_display(f)
    \/ \E f \in Failures(special_command_body(0)) : display(f)
    \/ \E f \in Failures(special_command_body(0)) : no_cursor(f)
    \/ \E f \in Failures(special_command_body(0)) : cursor(f)

Spec == Init /\ [][Next]_vars

\* A single call on a fresh controller whose capabilities never fail, over
\* the whole range of the u8 arguments.
NextWide ==
    /\ op.name = "new"
    /\ \/ \E col \in U8 : \E row \in U8 : \E checks \in BOOLEAN :
             set_cursor(col, row, 0, checks)
       \/ \E b \in Bytes : \E n \in U8 : special_command_count(b, n, 0)

SpecWide == Init /\ [][NextWide]_vars

(* ------------------------------------------------------------------ *)
(* Reading an operation's calls                                        *)
(* ------------------------------------------------------------------ *)
Calls(evs, c) == {i \in 1..Len(evs) : evs[i].c = c}
Low(ok) == [c |-> "set_low", v |-> 0, ok |-> ok]
High(ok) == [c |-> "set_high", v |-> 0, ok |-> ok]
Wr(b) == [c |-> "write", v |-> b, ok |-> TRUE]
Dl(ms) == [c |-> "delay_ms", v |-> ms, ok |-> TRUE]
FlagOps == {"no_display", "display", "no_cursor", "cursor"}

\* One transaction: one set_low, first; one set_high, after every write.
OneTransaction(evs) ==
    /\ Cardinality(Calls(evs, "set_low")) = 1
    /\ Cardinality(Calls(evs, "set_high")) = 1
    /\ evs[1] = Low(TRUE)
    /\ \A h \in Calls(evs, "set_high") :
          /\ evs[h].ok
          /\ \A w \in Calls(evs, "write") : 1 < w /\ w < h

\* Every transaction the operation began, it also ended (called set_high).
EndCalled(evs) ==
    \A i \in Calls(evs, "set_low") :
       evs[i].ok => \E j \in Calls(evs, "set_high") : j > i

Begun(evs) == \E i \in Calls(evs, "set_low") : evs[i].ok

(* ------------------------------------------------------------------ *)
(* C1                                                                  *)
(* ------------------------------------------------------------------ *)
\* C1 (as stated): whatever the capabilities report, every operation has
\* called end_transmission for the transaction it began before it returns,
\* so the select line is never left low.
C1_EndAlwaysCalled == EndCalled(events) /\ ~txOpen

\* C1 (amended): every operation that began a transaction and returns
\* success has ended it before returning: set_high was called, succeeded,
\* and the line is high.
C1_EndCalledOnSuccess ==
    (result = "Ok" /\ Begun(events)) => (EndCalled(events) /\ ~txOpen)

C1_Witness ==
    /\ op.name = "special_command_count" /\ op.b = 2
    /\ result = "Ok" /\ Begun(events) /\ ~txOpen

(* ------------------------------------------------------------------ *)
(* C2                                                                  *)
(* ------------------------------------------------------------------ *)
\* C2: the local display_control and display_mode bytes equal the flag bits
\* of the last display-control and entry-mode frames the device received.
C2_Mirror ==
    /\ sentDC # NoneSent => display_control = sentDC
    /\ sentEM # NoneSent => display_mode = sentEM

(* ------------------------------------------------------------------ *)
(* C3                                                                  *)
(* ------------------------------------------------------------------ *)
\* C3: when set_low fails in begin_transmission, the operation writes no
\* byte to the bus afterwards and returns Error::Pin.
C3_LineFailureStopsBus ==
    \A i \in Calls(events, "set_low") :
       ~events[i].ok =>
          /\ \A w \in Calls(events, "write") : w < i
          /\ result = "Pin"

C3_Witness ==
    /\ op.name = "write" /\ Len(op.buf) = 2
    /\ events = <<Low(FALSE)>> /\ result = "Pin"

(* ------------------------------------------------------------------ *)
(* C4                                                                  *)
(* ------------------------------------------------------------------ *)
\* C4: a successful set_cursor(col, row) with row in 0..3 and col in 0..19
\* sends one transaction whose bytes are 0xFE and 0x80 | (col + offset[row]);
\* the sum is below 0x80 there, so the OR adds 0x80.
C4_Offset(row) ==
    IF row = 0 THEN 0 ELSE IF row = 1 THEN 64 ELSE IF row = 2 THEN 20 ELSE 84

C4_SetCursorValid ==
    (/\ op.name = "set_cursor" /\ result = "Ok"
     /\ op.a \in 0..(MAX_COLUMNS - 1) /\ op.b \in 0..(MAX_ROWS - 1))
    => /\ OneTransaction(events)
       /\ Writes(events) = <<254, 128 + op.a + C4_Offset(op.b)>>

C4_Witness ==
    /\ op.name = "set_cursor" /\ op.a = 19 /\ op.b = 2 /\ result = "Ok"
    /\ Writes(events) = <<254, 167>>

(* ------------------------------------------------------------------ *)
(* C5                                                                  *)
(* ------------------------------------------------------------------ *)
\* C5: set_cursor(col, row) with row in 4..255 does what set_cursor(col, 3)
\* does: the payload is 0x80 | ((col + 0x54) mod 256), and the call panics
\* only where col + 0x54 does not fit in a byte.
C5_Or128(x) == IF x >= 128 THEN x ELSE x + 128

C5_RowClamped ==
    (op.name = "set_cursor" /\ op.b \in 4..255)
    => /\ result \in {"Ok", "Panic"}
       /\ result = "Ok" =>
             /\ OneTransaction(events)
             /\ Writes(events) = <<254, C5_Or128((op.a + 84) % 256)>>
       /\ result = "Panic" => op.a + 84 > 255

C5_Witness ==
    /\ op.name = "set_cursor" /\ op.a = 5 /\ op.b = 255 /\ result = "Ok"
    /\ Writes(events) = <<254, 217>>

(* ------------------------------------------------------------------ *)
(* C6                                                                  *)
(* ------------------------------------------------------------------ *)
\* C6: a successful special_command_count(b, n) is one transaction: set_low,
\* the pair (0xFE, b) n times with no select-line call in between, set_high,
\* and a 50ms delay at the end; with n = 0 the transaction holds no byte.
C6_CountBurst ==
    (op.name = "special_command_count" /\ result = "Ok")
    => /\ Len(events) = 2 * op.b + 5
       /\ events[1] = Low(TRUE)
       /\ events[2] = Dl(10)
       /\ \A i \in 1..(2 * op.b) :
             events[2 + i] = Wr(IF i % 2 = 1 THEN 254 ELSE op.a)
       /\ events[2 * op.b + 3] = High(TRUE)
       /\ events[2 * op.b + 4] = Dl(10)
       /\ events[2 * op.b + 5] = Dl(50)

C6_Witness ==
    /\ op.name = "special_command_count" /\ op.a = 16 /\ op.b = 3
    /\ result = "Ok"
    /\ Writes(events) = <<254, 16, 254, 16, 254, 16>>

C6_WitnessZero ==
    /\ op.name = "special_command_count" /\ op.b = 0 /\ result = "Ok"
    /\ events = <<Low(TRUE), Dl(10), High(TRUE), Dl(10), Dl(50)>>

(* ------------------------------------------------------------------ *)
(* C7                                                                  *)
(* ------------------------------------------------------------------ *)
\* C7: a successful setup() sends 0xFE 0x08 0xFE 0x04 0x7C 0x2D in one
\* transaction, closes it, and delays 50ms after the close and after the
\* transaction's own delay.
C7_SetupOrder ==
    (op.name = "setup" /\ result = "Ok")
    => events = <<Low(TRUE), Dl(10),
                  Wr(254), Wr(8), Wr(254), Wr(4), Wr(124), Wr(45),
                  High(TRUE), Dl(10), Dl(50)>>

C7_Witness ==
    /\ op.name = "setup" /\ result = "Ok" /\ Len(events) = 11 /\ ~txOpen

(* ------------------------------------------------------------------ *)
(* C8                                                                  *)
(* ------------------------------------------------------------------ *)
SameExcept(a, b, bit) == a % bit = b % bit /\ a \div (2 * bit) = b \div (2 * bit)
BitSet(a, bit) == (a \div bit) % 2 = 1
IsPrefix(s, t) == Len(s) <= Len(t) /\ s = SubSeq(t, 1, Len(s))

\* C8: each flag operation changes at most its own bit of display_control
\* (0x04 for display / no_display, 0x02 for cursor / no_cursor), leaves the
\* other bits as they were, and then issues one special command with payload
\* 0x08 | display_control (the new value): on success exactly the bytes
\* 0xFE and that payload in one transaction, on failure a prefix of them.
C8_FlagStep ==
    /\ op'.name = "display" =>
          SameExcept(display_control, display_control', 4)
          /\ BitSet(display_control', 4)
    /\ op'.name = "no_display" =>
          SameExcept(display_control, display_control', 4)
          /\ ~BitSet(display_control', 4)
    /\ op'.name = "cursor" =>
          SameExcept(display_control, display_control', 2)
          /\ BitSet(display_control', 2)
    /\ op'.name = "no_cursor" =>
          SameExcept(display_control, display_control', 2)
          /\ ~BitSet(display_control', 2)
    /\ op'.name \in FlagOps =>
          /\ display_control' < 8
          /\ result' = "Ok" =>
                /\ OneTransaction(events')
                /\ Writes(events') = <<254, 8 + display_control'>>
          /\ result' # "Ok" =>
                /\ Cardinality(Calls(events', "set_low")) = 1
                /\ IsPrefix(Writes(events'), <<254, 8 + display_control'>>)

C8_FlagBits == [][C8_FlagStep]_vars

\* no_display has cleared the display bit and the cursor bit set earlier is
\* still there.
C8_Witness ==
    /\ op.name = "no_display" /\ result = "Ok"
    /\ display_control = 2
    /\ Writes(events) = <<254, 10>>

(* ------------------------------------------------------------------ *)
(* C9                                                                  *)
(* ------------------------------------------------------------------ *)
\* C9: write_str on the empty text makes no capability call and returns
\* success; a successful write_str on a non-empty text is one transaction
\* holding exactly the bytes of the text, in order, with no marker added.
C9_WriteStr ==
    op.name = "write_str" =>
       IF op.buf = <<>>
       THEN events = <<>> /\ result = "Ok"
       ELSE result = "Ok" =>
               /\ OneTransaction(events)
               /\ Writes(events) = op.buf

C9_Witness ==
    /\ op.name = "write_str" /\ op.buf = <<72, 124>> /\ result = "Ok"
    /\ Writes(events) = <<72, 124>>

(* ------------------------------------------------------------------ *)
(* C10                                                                 *)
(* ------------------------------------------------------------------ *)
RECURSIVE DelaySum(_)
DelaySum(evs) ==
    IF evs = <<>> THEN 0
    ELSE (IF Head(evs).c = "delay_ms" THEN Head(evs).v ELSE 0)
         + DelaySum(Tail(evs))

\* The calls made after the set_high call
AfterClose(evs) ==
    LET h == CHOOSE i \in Calls(evs, "set_high") : TRUE
    IN SubSeq(evs, h + 1, Len(evs))

\* C10: a successful clear() is one transaction with the bytes 0x7C, 0x2D;
\* after set_high come the transaction's own 10ms, the 10ms of command and
\* the 10ms of clear itself, so the delays after the close sum to 20ms or
\* more.
C10_Clear ==
    (op.name = "clear" /\ result = "Ok")
    => /\ OneTransaction(events)
       /\ Writes(events) = <<124, 45>>
       /\ AfterClose(events) = <<Dl(10), Dl(10), Dl(10)>>
       /\ DelaySum(AfterClose(events)) >= 20

C10_Witness ==
    /\ op.name = "clear" /\ result = "Ok"
    /\ DelaySum(AfterClose(events)) = 30

(* ------------------------------------------------------------------ *)
(* C11                                                                 *)
(* ------------------------------------------------------------------ *)
\* C11: a successful command(b) is set_low, 0x7C, b, set_high and then a
\* 10ms delay of its own; a successful special_command(b) is set_low, 0xFE,
\* b, set_high and then a 50ms delay of its own; home() is
\* special_command(0x02).  (Each set_low and set_high is followed by the
\* 10ms delay of begin_transmission / end_transmission.)
C11_CommandFrames ==
    /\ (op.name = "command" /\ result = "Ok") =>
          events = <<Low(TRUE), Dl(10), Wr(124), Wr(op.a),
                     High(TRUE), Dl(10), Dl(10)>>
    /\ (op.name = "special_command" /\ result = "Ok") =>
          events = <<Low(TRUE), Dl(10), Wr(254), Wr(op.a),
                     High(TRUE), Dl(10), Dl(50)>>
    /\ (op.name = "home" /\ result = "Ok") =>
          events = <<Low(TRUE), Dl(10), Wr(254), Wr(2),
                     High(TRUE), Dl(10), Dl(50)>>

C11_Witness ==
    /\ op.name = "special_command" /\ op.a = 16 /\ result = "Ok"
    /\ Writes(events) = <<254, 16>>
    /\ events[Len(events)] = Dl(50)

(* ------------------------------------------------------------------ *)
(* C12                                                                 *)
(* ------------------------------------------------------------------ *)
\* C12: the first capability call that fails is the last call the operation
\* makes (no further write, select-line change or delay, no retry), and the
\* operation returns Error::Spi when it was a bus write and Error::Pin when
\* it was a select-line call; an operation returns an error only so.
C12_FirstFailureEnds ==
    /\ \A i \in 1..Len(events) :
          ~events[i].ok =>
             /\ i = Len(events)
             /\ result = IF events[i].c = "write" THEN "Spi" ELSE "Pin"
    /\ result \in {"Spi", "Pin"} =>
          events # <<>> /\ ~events[Len(events)].ok

\* The third write of a burst of three pairs failed.
C12_Witness ==
    /\ op.name = "special_command_count" /\ op.b = 3
    /\ result = "Spi"
    /\ Writes(events) = <<254, 16>>
    /\ Len(events) = 5

(* ------------------------------------------------------------------ *)
(* C13                                                                 *)
(* ------------------------------------------------------------------ *)
\* C13: an operation that returns Error::Spi began its transaction, made no
\* set_high call, and returns with the select line low; the bytes accepted
\* before the failing write are the ones the device got.
C13_BusFailureLeavesSelected ==
    result = "Spi" =>
       /\ events[1] = Low(TRUE)
       /\ Calls(events, "set_high") = {}
       /\ txOpen
       /\ Len(Writes(events)) = Cardinality(Calls(events, "write")) - 1

C13_Witness ==
    /\ op.name = "setup" /\ result = "Spi"
    /\ Writes(events) = <<254, 8, 254>>
    /\ txOpen

(* ------------------------------------------------------------------ *)
(* C14                                                                 *)
(* ------------------------------------------------------------------ *)
\* C14: when a flag operation returns an error, display_control holds the
\* value with the flag already changed (bit 0x04 set after display, clear
\* after no_display; bit 0x02 set after cursor, clear after no_cursor):
\* the byte is changed before any I/O and not restored.
C14_NoRollback ==
    (op.name \in FlagOps /\ result # "Ok") =>
       /\ op.name = "display" => BitSet(display_control, 4)
       /\ op.name = "no_display" => ~BitSet(display_control, 4)
       /\ op.name = "cursor" => BitSet(display_control, 2)
       /\ op.name = "no_cursor" => ~BitSet(display_control, 2)

\* no_display failed after a display that went through: the local byte says
\* display off, the last flags the device received say display on.
C14_Witness ==
    /\ op.name = "no_display" /\ result # "Ok"
    /\ display_control = 0
    /\ sentDC = 4

(* ------------------------------------------------------------------ *)
(* C15                                                                 *)
(* ------------------------------------------------------------------ *)
\* C15: for every col in 0..255 and every row, set_cursor(col, row) with
\* capabilities that do not fail returns success and sends one special
\* command with payload 0x80 | ((col + offset[min(row, 3)]) mod 256).
C15_ColumnWraps ==
    op.name = "set_cursor" =>
       /\ result = "Ok"
       /\ OneTransaction(events)
       /\ Writes(events) =
             <<254, C5_Or128((op.a + C4_Offset(Min(op.b, 3))) % 256)>>

(* ------------------------------------------------------------------ *)
(* C16                                                                 *)
(* ------------------------------------------------------------------ *)
\* C16: before every write call of an operation there is a set_low of the
\* same operation that succeeded, with no other select-line call between
\* that set_low and the write.
C16_WritesWhileSelected ==
    \A w \in Calls(events, "write") :
       \E l \in Calls(events, "set_low") :
          /\ l < w
          /\ events[l].ok
          /\ \A k \in (l + 1)..(w - 1) :
                events[k].c \notin {"set_low", "set_high"}

C16_Witness ==
    /\ op.name = "write" /\ op.buf = <<254, 254>>
    /\ result = "Spi"
    /\ Cardinality(Calls(events, "write")) = 2

(* ------------------------------------------------------------------ *)
(* C17                                                                 *)
(* ------------------------------------------------------------------ *)
\* C17: an operation that returns success has made exactly one set_low and
\* exactly one set_high call, both successful, the set_high after the
\* set_low, and the select line is high when it returns; the one exception
\* is write_str on the empty text, which makes no select-line call.
C17_SuccessClosesLine ==
    (result = "Ok" /\ op.name # "new") =>
       IF op.name = "write_str" /\ op.buf = <<>>
       THEN Calls(events, "set_low") \cup Calls(events, "set_high") = {}
       ELSE /\ Cardinality(Calls(events, "set_low")) = 1
            /\ Cardinality(Calls(events, "set_high")) = 1
            /\ \A l \in Calls(events, "set_low") :
                  \A h \in Calls(events, "set_high") :
                     l < h /\ events[l].ok /\ events[h].ok
            /\ ~txOpen

\* write on an empty buffer, unlike write_str, opens and closes a transaction.
C17_Witness ==
    /\ op.name = "write" /\ op.buf = <<>> /\ result = "Ok"
    /\ events = <<Low(TRUE), Dl(10), High(TRUE), Dl(10), Dl(10)>>
    /\ ~txOpen

(* ------------------------------------------------------------------ *)
(* C18                                                                 *)
(* ------------------------------------------------------------------ *)
\* C18: no operation changes display_mode, which stays 0x02, and an
\* operation other than no_display, display, no_cursor and cursor leaves
\* display_control as it was, whether it succeeds or fails.
C18_FrameStep ==
    /\ display_mode = 2
    /\ display_mode' = 2
    /\ op'.name \notin FlagOps => display_control' = display_control

C18_Frame == [][C18_FrameStep]_vars

\* setup went through after cursor(): the cursor bit is still there.
C18_Witness ==
    /\ op.name = "setup" /\ result = "Ok"
    /\ display_control = 6
    /\ display_mode = 2

(* ------------------------------------------------------------------ *)
(* C19                                                                 *)
(* ------------------------------------------------------------------ *)
\* C19: display_control is always one of 0x00, 0x02, 0x04, 0x06, and the
\* payload a flag operation writes after 0xFE is one of 0x08, 0x0A, 0x0C,
\* 0x0E: a display-control code, below LCD_CURSORSHIFT and above the
\* entry-mode codes.
C19_FlagRange ==
    /\ display_control \in {0, 2, 4, 6}
    /\ op.name \in FlagOps =>
          LET w == Writes(events) IN
          /\ Len(w) <= 2
          /\ Len(w) >= 1 => w[1] = 254
          /\ Len(w) = 2 =>
                /\ w[2] \in {8, 10, 12, 14}
                /\ BitAnd(w[2], 248) = LCD_DISPLAYCONTROL

C19_Witness ==
    /\ op.name = "cursor" /\ result = "Ok"
    /\ display_control = 6
    /\ Writes(events) = <<254, 14>>

(* ------------------------------------------------------------------ *)
(* C20                                                                 *)
(* ------------------------------------------------------------------ *)
DisplayOps == {"display", "no_display"}
CursorOps == {"cursor", "no_cursor"}
C20_Bit(name) ==
    IF name = "display" THEN 4 ELSE IF name = "cursor" THEN 2 ELSE 0

\* C20: on two flag operations called one after the other (the first is
\* the state's last operation, the second the step):
\*  - the same operation twice leaves display_control as the first call
\*    left it, and when both succeed writes the same bytes again;
\*  - a display-bit and a cursor-bit operation, in either order, end with
\*    display_control equal to the display bit the one asks for plus the
\*    cursor bit the other asks for;
\*  - two operations on the same bit end with the bit as the second asks.
C20_PairStep ==
    /\ (op.name \in FlagOps /\ op'.name = op.name) =>
          /\ display_control' = display_control
          /\ (result = "Ok" /\ result' = "Ok") =>
                Writes(events') = Writes(events)
    /\ \/ op.name \in DisplayOps /\ op'.name \in CursorOps
       \/ op.name \in CursorOps /\ op'.name \in DisplayOps
       => display_control' = C20_Bit(op.name) + C20_Bit(op'.name)
    /\ (op.name \in DisplayOps /\ op'.name \in DisplayOps) =>
          (BitSet(display_control', 4) <=> op'.name = "display")
    /\ (op.name \in CursorOps /\ op'.name \in CursorOps) =>
          (BitSet(display_control', 2) <=> op'.name = "cursor")

C20_FlagAlgebra == [][C20_PairStep]_vars

\* display() after cursor(): both bits set, and the device received both.
C20_Witness ==
    /\ op.name = "display" /\ result = "Ok"
    /\ display_control = 6
    /\ sentDC = 6
    /\ Writes(events) = <<254, 14>>

====
